---- MODULE Spec2Model ----
(***************************************************************************)
(* PreResNet (pytorch/models/preresnet.py): the topology resolver          *)
(* get_preresnet, the constructor PreResNet.__init__ and the forward pass, *)
(* over layer records (channel counts, kernel, stride, padding) and        *)
(* tensor shapes (n, c, h, w).                                             *)
(***************************************************************************)
EXTENDS Integers, Sequences, FiniteSets, TLC

VARIABLES pc, args, error, ctor, in_channels, i, j, stage, net, input, x, fpos, merge, pool_in

vars == <<pc, args, error, ctor, in_channels, i, j, stage, net, input, x, fpos, merge, pool_in>>

(***************************************************************************)
(* Bounds of the model.                                                    *)
(***************************************************************************)
\* largest input height/width fed to forward
MaxInSize == 256
\* largest batch size fed to forward
MaxBatch == 2
\* denominator of the smallest width scale tried (1/SmallScaleDen)
SmallScaleDen == 128

SupportedBlocks == {10, 12, 14, 16, 18, 34, 50, 101, 152, 200}
BlocksArgs == SupportedBlocks \cup {11, 51}
\* width_scale as an exact rational <<num, den>>
DocumentedScales == {<<1, 1>>, <<3, 4>>, <<1, 2>>, <<1, 4>>}
WidthScales == DocumentedScales \cup {<<1, SmallScaleDen>>}
Kwargs == {[in_channels |-> 3, num_classes |-> 1000], [in_channels |-> 1, num_classes |-> 10]}
InSizes == {1, 100, 224, MaxInSize}
InputChannels == {1, 3}

(***************************************************************************)
(* Layer primitives.                                                       *)
(***************************************************************************)
Conv2d(in, out, kernel_size, stride, padding, bias) ==
    [in_channels |-> in, out_channels |-> out, kernel_size |-> kernel_size,
     stride |-> stride, padding |-> padding, bias |-> bias]

BatchNorm2d(num_features) == [num_features |-> num_features]

PreResConv(in, out, kernel_size, stride, padding) ==
    [bn |-> BatchNorm2d(in), conv |-> Conv2d(in, out, kernel_size, stride, padding, FALSE)]

conv1x1_unstrided(in, out, stride) == Conv2d(in, out, 1, 1, 0, FALSE)

conv1x1(in, out, stride) == Conv2d(in, out, 1, stride, 0, FALSE)

preres_conv1x1(in, out, stride) == PreResConv(in, out, 1, stride, 0)

preres_conv3x3(in, out, stride) == PreResConv(in, out, 3, stride, 1)

PreResBlock(in, out, stride) ==
    [kind |-> "PreResBlock",
     convs |-> <<preres_conv3x3(in, out, stride), preres_conv3x3(out, out, 1)>>]

MidChannels_half(out_channels) == out_channels \div 2

MidChannels(out_channels) == out_channels \div 4

PreResBottleneck(in, out, stride, conv1_stride) ==
    LET mid_channels == MidChannels(out)
    IN  [kind |-> "PreResBottleneck",
         convs |-> <<preres_conv1x1(in, mid_channels, IF conv1_stride THEN stride ELSE 1),
                         preres_conv3x3(mid_channels, mid_channels, IF conv1_stride THEN 1 ELSE stride),
                         preres_conv1x1(mid_channels, out, 1)>>]

ResizeIdentity(in, out, stride) == (in # out) \/ (stride # 1)

PreResUnit(in, out, stride, bottleneck, conv1_stride) ==
    [in_channels |-> in, out_channels |-> out, stride |-> stride,
     resize_identity |-> ResizeIdentity(in, out, stride),
     body |-> IF bottleneck THEN PreResBottleneck(in, out, stride, conv1_stride)
                            ELSE PreResBlock(in, out, stride),
     identity_conv |-> IF ResizeIdentity(in, out, stride)
                       THEN <<conv1x1(in, out, stride)>> ELSE <<>>]

PreResInitBlock(in, out) ==
    [conv |-> Conv2d(in, out, 7, 2, 3, FALSE), bn |-> BatchNorm2d(out),
     pool |-> [kernel_size |-> 3, stride |-> 2, padding |-> 1]]

PreResActivation(in) == [bn |-> BatchNorm2d(in)]

FinalPoolKernel_8 == 7 + 1

FinalPoolKernel == 7

AvgPool2d == [kernel_size |-> FinalPoolKernel, stride |-> 1, padding |-> 0]

Linear(in_features, out_features) == [in_features |-> in_features, out_features |-> out_features]

(***************************************************************************)
(* get_preresnet: topology resolution.                                     *)
(***************************************************************************)
Unsupported == <<>>

Layers_default(blocks) ==
    CASE blocks = 10 -> <<1, 1, 1, 1>>
      [] blocks = 12 -> <<2, 1, 1, 1>>
      [] blocks = 14 -> <<2, 2, 1, 1>>
      [] blocks = 16 -> <<2, 2, 2, 1>>
      [] blocks = 18 -> <<2, 2, 2, 2>>
      [] blocks = 34 -> <<3, 4, 6, 3>>
      [] blocks = 50 -> <<3, 4, 6, 3>>
      [] blocks = 101 -> <<3, 4, 23, 3>>
      [] blocks = 152 -> <<3, 8, 36, 3>>
      [] blocks = 200 -> <<3, 24, 36, 3>>
      [] OTHER -> <<2, 2, 2, 2>>

Layers(blocks) ==
    CASE blocks = 10 -> <<1, 1, 1, 1>>
      [] blocks = 12 -> <<2, 1, 1, 1>>
      [] blocks = 14 -> <<2, 2, 1, 1>>
      [] blocks = 16 -> <<2, 2, 2, 1>>
      [] blocks = 18 -> <<2, 2, 2, 2>>
      [] blocks = 34 -> <<3, 4, 6, 3>>
      [] blocks = 50 -> <<3, 4, 6, 3>>
      [] blocks = 101 -> <<3, 4, 23, 3>>
      [] blocks = 152 -> <<3, 8, 36, 3>>
      [] blocks = 200 -> <<3, 24, 36, 3>>
      [] OTHER -> Unsupported

Bottleneck(blocks) == ~(blocks < 50)

ChannelsPerLayers(blocks) ==
    IF blocks < 50 THEN <<64, 128, 256, 512>> ELSE <<256, 512, 1024, 2048>>

InitBlockChannels == 64

\* [ci] * li
Repeat(ci, li) == [u \in 1..li |-> ci]

\* int(c * width_scale): truncation of the product, width_scale = num/den > 0
ScaleInt(c, width_scale) == (c * width_scale[1]) \div width_scale[2]

Channels(blocks, width_scale) ==
    LET layers == Layers(blocks)
        channels == [s \in 1..4 |-> Repeat(ChannelsPerLayers(blocks)[s], layers[s])]
    IN  IF width_scale[1] # width_scale[2]
        THEN [s \in 1..4 |-> [u \in 1..Len(channels[s]) |-> ScaleInt(channels[s][u], width_scale)]]
        ELSE channels

ScaledInitBlockChannels(width_scale) ==
    IF width_scale[1] # width_scale[2]
    THEN ScaleInt(InitBlockChannels, width_scale)
    ELSE InitBlockChannels

PretrainedRaises_never(pretrained) == FALSE

PretrainedRaises(pretrained) == pretrained

(***************************************************************************)
(* State.                                                                  *)
(***************************************************************************)
NoArgs == [blocks |-> 0, conv1_stride |-> TRUE, width_scale |-> <<1, 1>>,
           pretrained |-> FALSE, in_channels |-> 0, num_classes |-> 0]

NoCtor == [channels |-> <<>>, init_block_channels |-> 0, bottleneck |-> FALSE,
           conv1_stride |-> TRUE, in_channels |-> 0, num_classes |-> 0]

EmptyNet == [init_block |-> <<>>, stages |-> <<>>, post_activ |-> <<>>,
             final_pool |-> <<>>, output |-> <<>>, initialized |-> FALSE]

NoTensor == [n |-> 0, c |-> 0, h |-> 0, w |-> 0, ops |-> <<"none">>]

Init ==
    /\ pc = "idle"
    /\ args = NoArgs
    /\ error = "none"
    /\ ctor = NoCtor
    /\ in_channels = 0
    /\ i = 0
    /\ j = 0
    /\ stage = <<>>
    /\ net = EmptyNet
    /\ input = NoTensor
    /\ x = NoTensor
    /\ fpos = <<0, 0>>
    /\ merge = <<>>
    /\ pool_in = NoTensor

(***************************************************************************)
(* get_preresnet(blocks, conv1_stride, width_scale, pretrained, **kwargs)  *)
(* up to the call of the PreResNet constructor.                            *)
(***************************************************************************)
GetPreresnet ==
    /\ pc = "idle"
    /\ \E blocks \in BlocksArgs, conv1_stride \in BOOLEAN, width_scale \in WidthScales,
          pretrained \in BOOLEAN, kwargs \in Kwargs :
          /\ args' = [blocks |-> blocks, conv1_stride |-> conv1_stride,
                      width_scale |-> width_scale, pretrained |-> pretrained,
                      in_channels |-> kwargs.in_channels, num_classes |-> kwargs.num_classes]
          /\ IF Layers(blocks) = Unsupported
             THEN /\ pc' = "raised"
                  /\ error' = "unsupported_blocks"
                  /\ ctor' = ctor
             ELSE IF PretrainedRaises(pretrained)
             THEN /\ pc' = "raised"
                  /\ error' = "pretrained_not_supported"
                  /\ ctor' = ctor
             ELSE /\ pc' = "construct"
                  /\ error' = error
                  /\ ctor' = [channels |-> Channels(blocks, width_scale),
                              init_block_channels |-> ScaledInitBlockChannels(width_scale),
                              bottleneck |-> Bottleneck(blocks),
                              conv1_stride |-> conv1_stride,
                              in_channels |-> kwargs.in_channels,
                              num_classes |-> kwargs.num_classes]
    /\ UNCHANGED <<in_channels, i, j, stage, net, input, x, fpos, merge, pool_in>>

(***************************************************************************)
(* PreResNet.__init__                                                      *)
(***************************************************************************)
\* lines 213-217: the init block, in_channels = init_block_channels
AddInitBlock ==
    /\ pc = "construct"
    /\ net' = [net EXCEPT !.init_block =
                  <<PreResInitBlock(ctor.in_channels, ctor.init_block_channels)>>]
    /\ in_channels' = ctor.init_block_channels
    /\ i' = 0
    /\ j' = 0
    /\ stage' = <<>>
    /\ pc' = "units"
    /\ UNCHANGED <<args, error, ctor, input, x, fpos, merge, pool_in>>

StrideOf_everyStage(si, uj) == IF uj # 0 THEN 1 ELSE 2

StrideOf(si, uj) == IF (si = 0) \/ (uj # 0) THEN 1 ELSE 2

NextInChannels_kept(in, out) == in

NextInChannels(in, out) == out

\* lines 218-229: one iteration of the inner loop (and, after the last unit of a
\* stage, the add_module of the stage)
AddUnit ==
    /\ pc = "units"
    /\ i < Len(ctor.channels)
    /\ LET channels_per_stage == ctor.channels[i + 1]
           out_channels == channels_per_stage[j + 1]
           stride == StrideOf(i, j)
           unit == PreResUnit(in_channels, out_channels, stride, ctor.bottleneck, ctor.conv1_stride)
       IN  /\ in_channels' = NextInChannels(in_channels, out_channels)
           /\ IF j + 1 < Len(channels_per_stage)
              THEN /\ stage' = Append(stage, unit)
                   /\ j' = j + 1
                   /\ i' = i
                   /\ net' = net
              ELSE /\ stage' = <<>>
                   /\ j' = 0
                   /\ i' = i + 1
                   /\ net' = [net EXCEPT !.stages = Append(@, Append(stage, unit))]
    /\ UNCHANGED <<pc, args, error, ctor, input, x, fpos, merge, pool_in>>

\* lines 230-239: post_activ, final_pool, output, _init_params
FinishInit ==
    /\ pc = "units"
    /\ i = Len(ctor.channels)
    /\ net' = [net EXCEPT !.post_activ = <<PreResActivation(in_channels)>>,
                          !.final_pool = <<AvgPool2d>>,
                          !.output = <<Linear(in_channels, ctor.num_classes)>>,
                          !.initialized = TRUE]
    /\ pc' = "built"
    /\ UNCHANGED <<args, error, ctor, in_channels, i, j, stage, input, x, fpos, merge, pool_in>>

(***************************************************************************)
(* Forward pass over tensor shapes.  A tensor is its shape (n, c, h, w)    *)
(* and the operations applied since it entered the current module (ops).   *)
(* A rank-2 tensor (n, c) is written with h = w = 1 and ops <<"view">>.    *)
(***************************************************************************)
Err == [n |-> 0, c |-> 0, h |-> 0, w |-> 0, ops |-> <<"error">>]

IsErr(t) == t.ops = <<"error">>

Shape(t) == <<t.n, t.c, t.h, t.w>>

\* output size of a strided window (convolution or pooling)
OutSize(size, kernel_size, stride, padding) ==
    ((size + 2 * padding - kernel_size) \div stride) + 1

WindowForward(l, t, out_channels, name) ==
    IF IsErr(t) \/ t.h + 2 * l.padding < l.kernel_size \/ t.w + 2 * l.padding < l.kernel_size
    THEN Err
    ELSE [n |-> t.n, c |-> out_channels,
          h |-> OutSize(t.h, l.kernel_size, l.stride, l.padding),
          w |-> OutSize(t.w, l.kernel_size, l.stride, l.padding),
          ops |-> Append(t.ops, name)]

Conv2dForward(conv, t, name) ==
    IF IsErr(t) \/ t.c # conv.in_channels THEN Err
    ELSE WindowForward(conv, t, conv.out_channels, name)

BatchNormForward(bn, t) ==
    IF IsErr(t) \/ t.c # bn.num_features THEN Err
    ELSE [t EXCEPT !.ops = Append(@, "bn")]

ReLU(t) == IF IsErr(t) THEN Err ELSE [t EXCEPT !.ops = Append(@, "relu")]

\* PreResConv.forward: returns <<x, x_pre_activ>>
PreResConvForward(layer, t) ==
    LET x_pre_activ == ReLU(BatchNormForward(layer.bn, t))
    IN  <<Conv2dForward(layer.conv, x_pre_activ, "conv"), x_pre_activ>>

PreResBlockForward(body, t) ==
    LET r1 == PreResConvForward(body.convs[1], t)
        r2 == PreResConvForward(body.convs[2], r1[1])
    IN  <<r2[1], r1[2]>>

PreResBottleneckForward_lastPreActiv(body, t) ==
    LET r1 == PreResConvForward(body.convs[1], t)
        r2 == PreResConvForward(body.convs[2], r1[1])
        r3 == PreResConvForward(body.convs[3], r2[1])
    IN  <<r3[1], r3[2]>>

PreResBottleneckForward(body, t) ==
    LET r1 == PreResConvForward(body.convs[1], t)
        r2 == PreResConvForward(body.convs[2], r1[1])
        r3 == PreResConvForward(body.convs[3], r2[1])
    IN  <<r3[1], r1[2]>>

BodyForward(body, t) ==
    IF body.kind = "PreResBottleneck" THEN PreResBottleneckForward(body, t)
    ELSE PreResBlockForward(body, t)

Max(a, b) == IF a >= b THEN a ELSE b

Broadcastable(a, b) == a = b \/ a = 1 \/ b = 1

\* x + identity: element-wise add with broadcasting of size-1 dimensions
Add(a, b) ==
    IF IsErr(a) \/ IsErr(b) THEN Err
    ELSE IF \A d \in 1..4 : Broadcastable(Shape(a)[d], Shape(b)[d])
    THEN [n |-> Max(a.n, b.n), c |-> Max(a.c, b.c), h |-> Max(a.h, b.h), w |-> Max(a.w, b.w),
          ops |-> <<>>]
    ELSE Err

\* PreResUnit.forward: the two operands of the add and its result
PreResUnitForward(unit, t) ==
    LET b == BodyForward(unit.body, t)
        identity == IF unit.resize_identity
                    THEN Conv2dForward(unit.identity_conv[1], b[2], "identity_conv")
                    ELSE t
    IN  [body |-> b[1], identity |-> identity, out |-> Add(b[1], identity)]

MaxPool2dForward(pool, t) == WindowForward(pool, t, t.c, "pool")

PreResInitBlockForward(blk, t) ==
    MaxPool2dForward(blk.pool, ReLU(BatchNormForward(blk.bn, Conv2dForward(blk.conv, t, "conv"))))

PreResActivationForward(act, t) == ReLU(BatchNormForward(act.bn, t))

AvgPool2dForward(pool, t) == WindowForward(pool, t, t.c, "final_pool")

\* x.view(x.size(0), -1)
View(t) == [n |-> t.n, c |-> t.c * t.h * t.w, h |-> 1, w |-> 1, ops |-> <<"view">>]

LinearForward(lin, t) ==
    IF IsErr(t) \/ t.c # lin.in_features THEN Err
    ELSE [n |-> t.n, c |-> lin.out_features, h |-> 1, w |-> 1, ops |-> <<"view", "output">>]

ConvsOf(unit) == {unit.body.convs[q].conv : q \in 1..Len(unit.body.convs)} \cup
                 {unit.identity_conv[q] : q \in 1..Len(unit.identity_conv)}

\* every layer of the network has at least one input and one output channel
ChannelsPositive(n) ==
    /\ n.init_block[1].conv.out_channels > 0
    /\ \A s \in 1..Len(n.stages) : \A u \in 1..Len(n.stages[s]) :
          \A cv \in ConvsOf(n.stages[s][u]) : cv.in_channels > 0 /\ cv.out_channels > 0

\* net(x): features[0], the init block.  The forward pass is followed for
\* networks whose layers all have at least one channel; what the tensor
\* library does with a zero-channel layer is not decided by this source.
ForwardInitBlock ==
    /\ pc = "built"
    /\ ChannelsPositive(net)
    /\ \E n \in 1..MaxBatch, c \in InputChannels, h \in InSizes, w \in InSizes :
          LET t == [n |-> n, c |-> c, h |-> h, w |-> w, ops |-> <<>>]
              r == PreResInitBlockForward(net.init_block[1], t)
          IN  /\ input' = t
              /\ IF IsErr(r)
                 THEN /\ pc' = "fwd_error"
                      /\ error' = "init_block"
                      /\ x' = x
                 ELSE /\ pc' = "fwd_units"
                      /\ error' = error
                      /\ x' = [r EXCEPT !.ops = <<>>]
    /\ fpos' = <<1, 1>>
    /\ UNCHANGED <<args, ctor, in_channels, i, j, stage, net, merge, pool_in>>

\* one unit of one stage
ForwardUnit ==
    /\ pc = "fwd_units"
    /\ fpos[1] <= Len(net.stages)
    /\ LET unit == net.stages[fpos[1]][fpos[2]]
           r == PreResUnitForward(unit, x)
       IN  /\ merge' = <<[at |-> fpos, x |-> x, body |-> r.body, identity |-> r.identity]>>
           /\ IF IsErr(r.out)
              THEN /\ pc' = "fwd_error"
                   /\ error' = "merge"
                   /\ x' = x
              ELSE /\ pc' = pc
                   /\ error' = error
                   /\ x' = r.out
    /\ fpos' = IF fpos[2] < Len(net.stages[fpos[1]])
               THEN <<fpos[1], fpos[2] + 1>> ELSE <<fpos[1] + 1, 1>>
    /\ UNCHANGED <<args, ctor, in_channels, i, j, stage, net, input, pool_in>>

\* post_activ
ForwardPostActiv ==
    /\ pc = "fwd_units"
    /\ fpos[1] > Len(net.stages)
    /\ x' = PreResActivationForward(net.post_activ[1], x)
    /\ pool_in' = x'
    /\ pc' = "fwd_pool"
    /\ UNCHANGED <<args, error, ctor, in_channels, i, j, stage, net, input, fpos, merge>>

\* final_pool
ForwardFinalPool ==
    /\ pc = "fwd_pool"
    /\ LET r == AvgPool2dForward(net.final_pool[1], x)
       IN  IF IsErr(r)
           THEN /\ pc' = "fwd_error"
                /\ error' = "final_pool"
                /\ x' = x
           ELSE /\ pc' = "fwd_view"
                /\ error' = error
                /\ x' = r
    /\ UNCHANGED <<args, ctor, in_channels, i, j, stage, net, input, fpos, merge, pool_in>>

\* x = x.view(x.size(0), -1)
ForwardView ==
    /\ pc = "fwd_view"
    /\ x' = View(x)
    /\ pc' = "fwd_output"
    /\ UNCHANGED <<args, error, ctor, in_channels, i, j, stage, net, input, fpos, merge, pool_in>>

\* x = self.output(x)
ForwardOutput ==
    /\ pc = "fwd_output"
    /\ LET r == LinearForward(net.output[1], x)
       IN  IF IsErr(r)
           THEN /\ pc' = "fwd_error"
                /\ error' = "output"
                /\ x' = x
           ELSE /\ pc' = "done"
                /\ error' = error
                /\ x' = r
    /\ UNCHANGED <<args, ctor, in_channels, i, j, stage, net, input, fpos, merge, pool_in>>

Next ==
    \/ GetPreresnet
    \/ AddInitBlock
    \/ AddUnit
    \/ FinishInit
    \/ ForwardInitBlock
    \/ ForwardUnit
    \/ ForwardPostActiv
    \/ ForwardFinalPool
    \/ ForwardView
    \/ ForwardOutput

(***************************************************************************)
(* Derived views of the state.                                             *)
(***************************************************************************)
RECURSIVE Concat(_)
Concat(seqs) == IF seqs = <<>> THEN <<>> ELSE Head(seqs) \o Concat(Tail(seqs))

RECURSIVE Sum(_)
Sum(s) == IF s = <<>> THEN 0 ELSE Head(s) + Sum(Tail(s))

\* the units constructed so far, in construction order
BuiltUnits == Concat(net.stages) \o stage

\* np.prod(param.size()) over the parameters of a layer
Conv2dParams(conv) ==
    conv.out_channels * conv.in_channels * conv.kernel_size * conv.kernel_size
    + (IF conv.bias THEN conv.out_channels ELSE 0)

BatchNormParams(bn) == 2 * bn.num_features

PreResConvParams(layer) == BatchNormParams(layer.bn) + Conv2dParams(layer.conv)

UnitParams(unit) ==
    Sum([q \in 1..Len(unit.body.convs) |-> PreResConvParams(unit.body.convs[q])])
    + Sum([q \in 1..Len(unit.identity_conv) |-> Conv2dParams(unit.identity_conv[q])])

LinearParams(lin) == lin.in_features * lin.out_features + lin.out_features

\* weight_count of _test: all trainable parameters of a constructed network
WeightCount(n) ==
    Conv2dParams(n.init_block[1].conv) + BatchNormParams(n.init_block[1].bn)
    + Sum([q \in 1..Len(Concat(n.stages)) |-> UnitParams(Concat(n.stages)[q])])
    + BatchNormParams(n.post_activ[1].bn)
    + LinearParams(n.output[1])

Building == pc \in {"units", "built"}

Forwarding == pc \in {"fwd_units", "fwd_pool", "fwd_view", "fwd_output", "done", "fwd_error"}

DefaultArgs == args.in_channels = 3 /\ args.num_classes = 1000 /\ args.width_scale = <<1, 1>>

(***************************************************************************)
(* Claims.                                                                 *)
(***************************************************************************)

\* C1: a preset built with default arguments has the reference number of
\* trainable parameters: preresnet18 11687848, preresnet34 21796008,
\* preresnet50/50b 25549480, preresnet101/101b 44541608, preresnet152/152b
\* 60185256, the same for both stride placements of a bottleneck preset.
C1_ParameterCount ==
    (pc = "built" /\ DefaultArgs) =>
        /\ (args.blocks = 18 /\ args.conv1_stride) => WeightCount(net) = 11687848
        /\ (args.blocks = 34 /\ args.conv1_stride) => WeightCount(net) = 21796008
        /\ args.blocks = 50 => WeightCount(net) = 25549480
        /\ args.blocks = 101 => WeightCount(net) = 44541608
        /\ args.blocks = 152 => WeightCount(net) = 60185256

C1_Witness ==
    /\ pc = "built" /\ DefaultArgs
    /\ args.blocks = 152 /\ ~args.conv1_stride
    /\ WeightCount(net) = 60185256

\* a forward pass of the self-test's input through a documented preset
C2_Preset ==
    /\ Forwarding
    /\ input = [n |-> 1, c |-> 3, h |-> 224, w |-> 224, ops |-> <<>>]
    /\ args.in_channels = 3 /\ args.num_classes = 1000
    /\ args.width_scale \in {<<1, 1>>, <<3, 4>>, <<1, 2>>, <<1, 4>>}

\* C2: a (1, 3, 224, 224) input through any preset (every supported block
\* count, both conv1_stride values, the documented width scales) built with
\* in_channels=3 and num_classes=1000 runs through forward without a shape
\* error (every unit it is about to enter exists), the flattened length
\* equals the classifier's in_features, and the output has shape (1, 1000).
C2_OutputShape ==
    C2_Preset =>
        /\ pc # "fwd_error"
        /\ pc = "fwd_units" =>
              \/ fpos[1] > Len(net.stages)
              \/ fpos[2] <= Len(net.stages[fpos[1]])
        /\ pc = "fwd_output" => x.c = net.output[1].in_features
        /\ pc = "done" => <<x.n, x.c>> = <<1, 1000>> /\ x.ops = <<"view", "output">>

C2_Witness ==
    /\ C2_Preset /\ pc = "done"
    /\ args.blocks = 200 /\ ~args.conv1_stride /\ args.width_scale = <<1, 4>>
    /\ <<x.n, x.c>> = <<1, 1000>>

\* C3: at the residual merge of every unit of every network with positive
\* channel counts, for every input size, the body output and the identity
\* branch have the same shape, so x + identity never fails.
C3_MergeShapes ==
    /\ merge # <<>> =>
          /\ ~IsErr(merge[1].body)
          /\ ~IsErr(merge[1].identity)
          /\ Shape(merge[1].body) = Shape(merge[1].identity)
    /\ error # "merge"

C3_Witness ==
    /\ merge # <<>>
    /\ net.stages[merge[1].at[1]][merge[1].at[2]].stride = 2
    /\ net.stages[merge[1].at[1]][merge[1].at[2]].body.kind = "PreResBottleneck"
    /\ ~args.conv1_stride
    /\ merge[1].x.h = 25 /\ merge[1].x.w = 64
    /\ Shape(merge[1].body) = Shape(merge[1].identity)
    /\ merge[1].body.h = 13 /\ merge[1].body.w = 32

\* C4: a call of get_preresnet with blocks outside 10, 12, 14, 16, 18, 34, 50,
\* 101, 152, 200 raises the unsupported-blocks error and nothing is ever
\* constructed on that call, whatever the other arguments are.
C4_UnsupportedBlocks ==
    (pc # "idle" /\ args.blocks \notin {10, 12, 14, 16, 18, 34, 50, 101, 152, 200}) =>
        /\ pc = "raised"
        /\ error = "unsupported_blocks"
        /\ net = EmptyNet /\ stage = <<>> /\ ctor = NoCtor

C4_Witness ==
    /\ pc = "raised" /\ error = "unsupported_blocks"
    /\ args.blocks = 11 /\ args.pretrained /\ args.width_scale = <<1, 2>>
    /\ net = EmptyNet

\* C5: a call with pretrained=True and a supported blocks value raises the
\* not-supported error, for either conv1_stride and any width scale, and no
\* layer is constructed on that call.
C5_Pretrained ==
    (pc # "idle" /\ args.pretrained
        /\ args.blocks \in {10, 12, 14, 16, 18, 34, 50, 101, 152, 200}) =>
        /\ pc = "raised"
        /\ error = "pretrained_not_supported"
        /\ net = EmptyNet /\ stage = <<>> /\ ctor = NoCtor

C5_Witness ==
    /\ pc = "raised" /\ error = "pretrained_not_supported"
    /\ args.blocks = 152 /\ ~args.conv1_stride /\ args.width_scale = <<3, 4>>
    /\ net = EmptyNet

\* C6: in every bottleneck unit with out_channels = C the mid width of the
\* three convolutions is C \div 4, and no bottleneck unit is ever built with a
\* zero mid width (such a configuration is rejected at construction).
C6_MidWidth ==
    Building =>
        \A q \in 1..Len(BuiltUnits) :
            LET unit == BuiltUnits[q]
                convs == unit.body.convs
            IN  unit.body.kind = "PreResBottleneck" =>
                    /\ convs[1].conv.out_channels = unit.out_channels \div 4
                    /\ convs[2].conv.in_channels = unit.out_channels \div 4
                    /\ convs[2].conv.out_channels = unit.out_channels \div 4
                    /\ convs[3].conv.in_channels = unit.out_channels \div 4
                    /\ convs[1].conv.out_channels > 0

\* C7: all units of the first stage have stride 1; in each later stage the
\* first unit, and only it, has stride 2; a built network has exactly three
\* stride-2 units.
C7_StridePlacement ==
    Building =>
        /\ \A s \in 1..Len(net.stages) : \A u \in 1..Len(net.stages[s]) :
              net.stages[s][u].stride = (IF s > 1 /\ u = 1 THEN 2 ELSE 1)
        /\ \A u \in 1..Len(stage) :
              stage[u].stride = (IF i + 1 > 1 /\ u = 1 THEN 2 ELSE 1)
        /\ pc = "built" =>
              Cardinality({q \in 1..Len(BuiltUnits) : BuiltUnits[q].stride = 2}) = 3

C7_Witness ==
    /\ pc = "built" /\ args.blocks = 200
    /\ Len(BuiltUnits) = 66
    /\ {q \in 1..Len(BuiltUnits) : BuiltUnits[q].stride = 2} = {4, 28, 64}

\* C8: every unit's in_channels is the out_channels of the unit built just
\* before it (also across stages), the first unit's in_channels is the
\* (scaled) init-block output channel count, and post_activ and the
\* classifier take the out_channels of the last unit.
C8_ChannelContinuity ==
    Building =>
        /\ \A q \in 1..Len(BuiltUnits) :
              /\ BuiltUnits[q].in_channels =
                    (IF q = 1 THEN net.init_block[1].conv.out_channels
                              ELSE BuiltUnits[q - 1].out_channels)
              /\ BuiltUnits[q].body.convs[1].conv.in_channels = BuiltUnits[q].in_channels
              /\ BuiltUnits[q].body.convs[Len(BuiltUnits[q].body.convs)].conv.out_channels
                    = BuiltUnits[q].out_channels
        /\ net.init_block[1].conv.out_channels =
              (IF args.width_scale = <<1, 1>> THEN 64
               ELSE (64 * args.width_scale[1]) \div args.width_scale[2])
        /\ pc = "built" =>
              /\ net.post_activ[1].bn.num_features = BuiltUnits[Len(BuiltUnits)].out_channels
              /\ net.output[1].in_features = BuiltUnits[Len(BuiltUnits)].out_channels

C8_Witness ==
    /\ pc = "built" /\ args.blocks = 101 /\ args.width_scale = <<3, 4>>
    /\ BuiltUnits[1].in_channels = 48
    /\ BuiltUnits[4].in_channels = 192 /\ BuiltUnits[4].out_channels = 384
    /\ net.output[1].in_features = 1536

\* C9: the identity branch of a unit is the bias-free 1x1 projection (stride
\* of the unit) of the first pre-activation convolution's post-activation
\* tensor iff in_channels # out_channels or stride # 1; otherwise it is the
\* unmodified unit input and the unit owns no projection layer.
C9_IdentityBranch ==
    merge # <<>> =>
        LET unit == net.stages[merge[1].at[1]][merge[1].at[2]]
            t == merge[1].x
            identity == merge[1].identity
        IN  IF unit.in_channels # unit.out_channels \/ unit.stride # 1
            THEN /\ unit.identity_conv =
                       <<[in_channels |-> unit.in_channels, out_channels |-> unit.out_channels,
                          kernel_size |-> 1, stride |-> unit.stride, padding |-> 0,
                          bias |-> FALSE]>>
                 /\ identity.ops = <<"bn", "relu", "identity_conv">>
                 /\ Shape(identity) = <<t.n, unit.out_channels,
                                        (t.h - 1) \div unit.stride + 1,
                                        (t.w - 1) \div unit.stride + 1>>
            ELSE /\ unit.identity_conv = <<>>
                 /\ identity = t
                 /\ identity.ops = <<>>

C9_Witness ==
    /\ merge # <<>>
    /\ merge[1].at = <<3, 1>>
    /\ net.stages[3][1].body.kind = "PreResBottleneck"
    /\ net.stages[3][1].identity_conv # <<>>
    /\ merge[1].identity.ops = <<"bn", "relu", "identity_conv">>
    /\ merge[1].identity.h = 14 /\ merge[1].x.h = 28

Spec == Init /\ [][Next]_vars
====
